---- MODULE Spec2Model ----
(***************************************************************************)
(* Model of the ChannelUsers ingestion-dedup-delivery pipeline:            *)
(*   src/main.py             main(), _to_async_iter, the youtube_users     *)
(*                           store operations                              *)
(*   src/telegram_handler.py TelegramHandler.send_message_with_retry       *)
(*   src/yt_to_telegram.py   the earlier single-file main()                *)
(*                                                                         *)
(* Spec      a whole execution of main(): the bridge worker thread and     *)
(*           both passes over the feed.  A call of the delivery            *)
(*           subroutine is one step of main(); its possible results are    *)
(*           computed from the subroutine's own step relation.             *)
(* FairSpec  Spec with weak fairness on every step.                        *)
(* SpecSend  send_message_with_retry called on its own, max_attempts       *)
(*           drawn from 0..MaxAttemptsBound.                               *)
(* FairSpecSend  SpecSend with weak fairness on every step.                *)
(* SpecYt    a whole execution of main() of src/yt_to_telegram.py.         *)
(* SpecStore the three store operations called in any order, on any id,    *)
(*           at any time up to MaxClock.                                   *)
(***************************************************************************)
EXTENDS Integers, Sequences, FiniteSets, TLC

\* ---------------------------------------------------------------- bounds
MaxEvents == 2
MaxAttemptsBound == 3
MaxRetryAfter == 30
MaxClock == 3

\* ------------------------------------------------------ program constants
retry_delay == 60
max_retry_delay == 300
DefaultMaxAttempts == 3
base_delay == 3
ErrorBackoffStep == 5

\* ------------------------------------------------------------ feed events
Ids == {"a", "b"}
Payloads == {"p1", "p2"}
NoId == "none"

\* author.get('name')
NameOf(p) == IF p = "p1" THEN "n1" ELSE "n2"
\* author.get('url'): p2 carries no url
UrlOf(p) == IF p = "p1" THEN "u1" ELSE "nourl"
\* author.get('images', []): p2 carries no image
HasImage(p) == p = "p1"

NoIdEvent == [id |-> NoId, payload |-> "p1"]
MalformedEvent == [id |-> "malformed", payload |-> "p1"]
NoEvent == [id |-> "noevent", payload |-> "p1"]
\* the messages a feed can yield: participant a seen with either payload,
\* participant b, a message without id and a message of unexpected shape
Events ==
    {[id |-> "a", payload |-> "p1"], [id |-> "a", payload |-> "p2"],
     [id |-> "b", payload |-> "p1"], NoIdEvent, MalformedEvent}
Sentinel == [id |-> "sentinel", payload |-> "p1"]

\* --------------------------------------------------------------- the store
Absent == [present |-> FALSE]
NoTime == 0

\* ------------------------------------------------- messaging-endpoint errors
RetryAfters == {1, MaxRetryAfter}
NoErr == [kind |-> "none", n |-> 0, parseable |-> TRUE]
GenericErr == [kind |-> "generic", n |-> 0, parseable |-> TRUE]
ParseErr == [kind |-> "parse", n |-> 0, parseable |-> TRUE]
RateErrs == [kind : {"rate"}, n : RetryAfters, parseable : BOOLEAN]
SendErrs == {GenericErr, ParseErr} \cup RateErrs

VARIABLES
    mainPc,      \* position of main()
    cur,         \* the message being processed
    now,         \* logical clock (datetime.now / CURRENT_TIMESTAMP)
    store,       \* youtube_users: id -> row or Absent
    q,           \* hand-off queue of the active bridge
    workerPc,    \* bridge worker thread: "none", "running", "ended", "died"
    yielded,     \* items the source has yielded on this connection
    produced,    \* the items the source has yielded on this connection
    handed,      \* items the bridge has handed to the loop on this connection
    opens,       \* number of successful get_chat calls
    crashCause,  \* why main() raised: "none", "feed", "event"
    supWaited,   \* seconds the supervisor loop has slept
    cleanEnded,  \* a pass has ended on the end-of-stream marker
    accepted,    \* id -> notifications the endpoint accepted
    markCalls,   \* id -> invocations of mark_user_sent_to_telegram
    markOk,      \* id -> invocations that executed their UPDATE
    lastRet,     \* result of the latest call made by main(): "none",
                 \* "true", "false", "exc"
    sub          \* frame of send_message_with_retry (SpecSend)

mainVars == <<mainPc, cur, now, store, q, workerPc, yielded, produced, handed, opens,
              crashCause, supWaited, cleanEnded, accepted, markCalls, markOk,
              lastRet>>
vars == <<mainPc, cur, now, store, q, workerPc, yielded, produced, handed, opens, crashCause,
          supWaited, cleanEnded, accepted, markCalls, markOk, lastRet, sub>>

ZeroIds == [i \in Ids |-> 0]

\* ===================================================== the Dedup Store
\* the insert overwrites the row of an id it finds
save_user_Overwrite(st, i, p, t) ==
    [st EXCEPT ![i] = [present |-> TRUE, name |-> NameOf(p),
                       url |-> UrlOf(p), first_seen |-> t,
                       delivered |-> FALSE, delivered_at |-> NoTime,
                       raw |-> p]]

\* on conflict the insert puts the flag of the row back to FALSE
save_user_ResetFlag(st, i, p, t) ==
    IF st[i] # Absent
    THEN [st EXCEPT ![i].delivered = FALSE, ![i].delivered_at = NoTime]
    ELSE [st EXCEPT ![i] = [present |-> TRUE, name |-> NameOf(p),
                            url |-> UrlOf(p), first_seen |-> t,
                            delivered |-> FALSE, delivered_at |-> NoTime,
                            raw |-> p]]

\* INSERT ... ON CONFLICT (channel_id) DO NOTHING
save_user(st, i, p, t) ==
    IF st[i] # Absent THEN st
    ELSE [st EXCEPT ![i] = [present |-> TRUE, name |-> NameOf(p),
                            url |-> UrlOf(p), first_seen |-> t,
                            delivered |-> FALSE, delivered_at |-> NoTime,
                            raw |-> p]]

\* SELECT sent_to_telegram ... or False
is_user_sent_to_telegram(st, i) ==
    IF st[i] = Absent THEN FALSE ELSE st[i].delivered

\* the update sets the flag and leaves telegram_sent_at alone
mark_user_sent_to_telegram_FlagOnly(st, i, t) ==
    IF st[i] = Absent THEN st
    ELSE [st EXCEPT ![i].delivered = TRUE]

\* UPDATE ... SET sent_to_telegram = TRUE, telegram_sent_at = CURRENT_TIMESTAMP
mark_user_sent_to_telegram(st, i, t) ==
    IF st[i] = Absent THEN st
    ELSE [st EXCEPT ![i].delivered = TRUE, ![i].delivered_at = t]

\* ---------------------------------------- the store operations on their own
\* mainPc tells which operation returned last: "store" (none yet),
\* "st_saved", "st_queried", "st_marked"; cur holds its arguments and
\* lastRet the value is_user_sent_to_telegram returned.
StoreFrame ==
    UNCHANGED <<q, workerPc, yielded, produced, handed, opens, crashCause,
                supWaited, cleanEnded, accepted, markCalls, markOk, sub>>

\* await save_user(pool, channel_id, channel_name, channel_url, data)
St_Save ==
    /\ \E i \in Ids, p \in Payloads :
          /\ store' = save_user(store, i, p, now)
          /\ cur' = [id |-> i, payload |-> p]
    /\ mainPc' = "st_saved"
    /\ lastRet' = "none"
    /\ UNCHANGED now
    /\ StoreFrame

\* await is_user_sent_to_telegram(pool, channel_id)
St_Query ==
    /\ \E i \in Ids :
          /\ lastRet' = IF is_user_sent_to_telegram(store, i)
                        THEN "true" ELSE "false"
          /\ cur' = [id |-> i, payload |-> "p1"]
    /\ mainPc' = "st_queried"
    /\ UNCHANGED <<store, now>>
    /\ StoreFrame

\* await mark_user_sent_to_telegram(pool, channel_id)
St_Mark ==
    /\ \E i \in Ids :
          /\ store' = mark_user_sent_to_telegram(store, i, now)
          /\ cur' = [id |-> i, payload |-> "p1"]
    /\ mainPc' = "st_marked"
    /\ lastRet' = "none"
    /\ UNCHANGED now
    /\ StoreFrame

\* time passes between two calls
St_Tick ==
    /\ now < MaxClock
    /\ now' = now + 1
    /\ UNCHANGED <<mainPc, cur, store, lastRet>>
    /\ StoreFrame

NextStore ==
    \/ St_Save
    \/ St_Query
    \/ St_Mark
    \/ St_Tick

\* ============================================ send_message_with_retry
\* The frame of one call:
\*   pc          position: "loop", "fetch", "photo_rich", "photo_plain",
\*               "text_rich", "text_plain", "pace", "handler", "returned",
\*               "raised" ("idle": no call)
\*   attempt     loop variable attempt
\*   max         parameter max_attempts
\*   hasPic      profile_pic_url is not None
\*   slept       seconds slept in this call
\*   err         exception being handled at line 131
\*   ret         "none", "true", "false", "exc"
\*   accepts     send calls the endpoint accepted
\*   okAt        attempt in which a send was accepted (0: none)
\*   rl1         largest retry-after answered during attempt 1 (0: none)
\*   allGeneric  every send so far failed with a generic error
\*   rateOnly1   every send of attempt 1 was answered with a rate-limit error
\* and, of the current attempt (reset when an attempt starts):
\*   fetched     result of the avatar fetch: "none", "ok", "fail"
\*   photoSends  send_photo calls issued
\*   textSends   send_message calls issued
\*   plainSends  calls issued with parse_mode=None
\*   rateSeen    a send was answered with a rate-limit error
\*   answer      answer to the latest send: "none", "ok", "parse", "rate",
\*               "generic"
\* and, of the whole call:
\*   sentAfterRate  a send was issued in an attempt after a rate-limit
\*                  answer of that attempt
\*   callsAfterOk   fetches and sends issued after a send was accepted
\*   sleptAtOk      seconds slept when the send was accepted
IdleFrame ==
    [pc |-> "idle", attempt |-> 0, max |-> 0, hasPic |-> FALSE, slept |-> 0,
     err |-> NoErr, ret |-> "none", accepts |-> 0, okAt |-> 0, rl1 |-> 0,
     allGeneric |-> TRUE, rateOnly1 |-> TRUE,
     fetched |-> "none", photoSends |-> 0, textSends |-> 0, plainSends |-> 0,
     rateSeen |-> FALSE, answer |-> "none", sentAfterRate |-> FALSE,
     callsAfterOk |-> 0, sleptAtOk |-> 0]

\* entry of the call: parameters bound, the attempt loop not yet started
EnterSend(pic, maxA) ==
    [IdleFrame EXCEPT !.pc = "loop", !.max = maxA, !.hasPic = pic]

\* a send call was accepted by the endpoint: execution falls through to
\* the pacing sleep of line 127
Accept(s) ==
    [s EXCEPT !.pc = "pace", !.accepts = @ + 1, !.okAt = s.attempt,
              !.allGeneric = FALSE, !.answer = "ok", !.sleptAtOk = s.slept,
              !.rateOnly1 = (s.rateOnly1 /\ s.attempt # 1)]

\* a send call raised e; control moves to position next
Reject(s, e, next) ==
    [s EXCEPT !.pc = next,
              !.err = IF next = "handler" THEN e ELSE NoErr,
              !.answer = e.kind,
              !.rateSeen = (s.rateSeen \/ e.kind = "rate"),
              !.allGeneric = (s.allGeneric /\ e = GenericErr),
              !.rl1 = IF e.kind = "rate" /\ s.attempt = 1 /\ e.n > s.rl1
                      THEN e.n ELSE s.rl1,
              !.rateOnly1 = (s.rateOnly1 /\ (s.attempt = 1 => e.kind = "rate"))]

\* a send call is issued from position s.pc
Issue(s) ==
    [s EXCEPT !.photoSends = IF s.pc \in {"photo_rich", "photo_plain"}
                             THEN @ + 1 ELSE @,
              !.textSends = IF s.pc \in {"text_rich", "text_plain"}
                            THEN @ + 1 ELSE @,
              !.plainSends = IF s.pc \in {"photo_plain", "text_plain"}
                             THEN @ + 1 ELSE @,
              !.sentAfterRate = (s.sentAfterRate \/ s.rateSeen),
              !.callsAfterOk = IF s.okAt > 0 THEN @ + 1 ELSE @]

\* "entities" in str(e) or "parse" in str(e).lower()
IsParseError(e) == e.kind = "parse"

\* the loop runs one attempt more than max_attempts
Loop_OneMore(s) ==
    IF s.attempt <= s.max
    THEN {[s EXCEPT !.attempt = @ + 1, !.pc = "fetch", !.fetched = "none",
                    !.photoSends = 0, !.textSends = 0, !.plainSends = 0,
                    !.rateSeen = FALSE, !.answer = "none"]}
    ELSE {[s EXCEPT !.ret = "false", !.pc = "returned"]}

\* for attempt in range(1, max_attempts + 1) ... return False (line 150)
Loop(s) ==
    IF s.attempt < s.max
    THEN {[s EXCEPT !.attempt = @ + 1, !.pc = "fetch", !.fetched = "none",
                    !.photoSends = 0, !.textSends = 0, !.plainSends = 0,
                    !.rateSeen = FALSE, !.answer = "none"]}
    ELSE {[s EXCEPT !.ret = "false", !.pc = "returned"]}

\* the status of the response is not looked at
Fetch_IgnoreStatus(s) ==
    {[s EXCEPT !.pc = IF r = "exc" THEN "text_rich" ELSE "photo_rich",
               !.fetched = IF r = "ok" THEN "ok" ELSE "fail",
               !.callsAfterOk = IF s.okAt > 0 THEN @ + 1 ELSE @] :
        r \in (IF s.hasPic THEN {"ok", "status", "exc"} ELSE {"exc"})}

\* session.get(profile_pic_url): status 200, another status, an exception
Fetch(s) ==
    {[s EXCEPT !.pc = IF r = "ok" THEN "photo_rich" ELSE "text_rich",
               !.fetched = IF r = "ok" THEN "ok" ELSE "fail",
               !.callsAfterOk = IF s.okAt > 0 THEN @ + 1 ELSE @] :
        r \in (IF s.hasPic THEN {"ok", "status", "exc"} ELSE {"exc"})}

\* bot.send_photo(..., parse_mode='MarkdownV2'), lines 78-99
PhotoRich(s) ==
    {Accept(Issue(s))} \cup
    {Reject(Issue(s), e,
            IF IsParseError(e) THEN "photo_plain" ELSE "text_rich") :
        e \in SendErrs}

\* bot.send_photo(..., parse_mode=None), lines 91-96
PhotoPlain(s) ==
    {Accept(Issue(s))} \cup
    {Reject(Issue(s), e, "text_rich") : e \in SendErrs}

\* bot.send_message(..., parse_mode='MarkdownV2'), lines 105-124
TextRich(s) ==
    {Accept(Issue(s))} \cup
    {Reject(Issue(s), e,
            IF IsParseError(e) THEN "text_plain" ELSE "handler") :
        e \in SendErrs}

\* bot.send_message(..., parse_mode=None), lines 117-121
TextPlain(s) ==
    {Accept(Issue(s))} \cup
    {Reject(Issue(s), e, "handler") : e \in SendErrs}

\* the pacing delay does not grow with the attempt number
Pace_Flat(s) ==
    {[s EXCEPT !.slept = @ + base_delay, !.ret = "true", !.pc = "returned"]}

\* delay = base_delay * attempt; sleep; return True
Pace(s) ==
    {[s EXCEPT !.slept = @ + base_delay * s.attempt, !.ret = "true",
               !.pc = "returned"]}

\* the last retry is given up one attempt early
AttemptsRemain_Early(a, m) == a + 1 < m

\* elif attempt < max_attempts
AttemptsRemain(a, m) == a < m

\* except Exception as e (lines 131-148)
Handler(s) ==
    IF s.err.kind = "rate"
    THEN IF s.err.parseable
         THEN {[s EXCEPT !.slept = @ + s.err.n + 1, !.pc = "loop",
                         !.err = NoErr]}
         ELSE \* int(str(e).split()[-2]) raises inside the handler
              {[s EXCEPT !.ret = "exc", !.pc = "raised", !.err = NoErr]}
    ELSE IF AttemptsRemain(s.attempt, s.max)
         THEN {[s EXCEPT !.slept = @ + ErrorBackoffStep * s.attempt,
                         !.pc = "loop", !.err = NoErr]}
         ELSE {[s EXCEPT !.ret = "false", !.pc = "returned", !.err = NoErr]}

\* the steps of a call
S_Loop == sub.pc = "loop" /\ sub' \in Loop(sub) /\ UNCHANGED mainVars
S_Fetch == sub.pc = "fetch" /\ sub' \in Fetch(sub) /\ UNCHANGED mainVars
S_PhotoRich ==
    sub.pc = "photo_rich" /\ sub' \in PhotoRich(sub) /\ UNCHANGED mainVars
S_PhotoPlain ==
    sub.pc = "photo_plain" /\ sub' \in PhotoPlain(sub) /\ UNCHANGED mainVars
S_TextRich ==
    sub.pc = "text_rich" /\ sub' \in TextRich(sub) /\ UNCHANGED mainVars
S_TextPlain ==
    sub.pc = "text_plain" /\ sub' \in TextPlain(sub) /\ UNCHANGED mainVars
S_Pace == sub.pc = "pace" /\ sub' \in Pace(sub) /\ UNCHANGED mainVars
S_Handler == sub.pc = "handler" /\ sub' \in Handler(sub) /\ UNCHANGED mainVars

\* the successors of a frame
StepsOf(s) ==
    CASE s.pc = "loop" -> Loop(s)
      [] s.pc = "fetch" -> Fetch(s)
      [] s.pc = "photo_rich" -> PhotoRich(s)
      [] s.pc = "photo_plain" -> PhotoPlain(s)
      [] s.pc = "text_rich" -> TextRich(s)
      [] s.pc = "text_plain" -> TextPlain(s)
      [] s.pc = "pace" -> Pace(s)
      [] s.pc = "handler" -> Handler(s)
      [] OTHER -> {}

RECURSIVE FramesFrom(_)
FramesFrom(S) ==
    LET N == S \cup UNION {StepsOf(s) : s \in S}
    IN IF N = S THEN S ELSE FramesFrom(N)

\* how a call can end, as its caller sees it: the value returned ("exc": an
\* exception left the call) and the number of sends the endpoint accepted
send_message_with_retry(pic, maxA) ==
    {[ret |-> s.ret, accepts |-> s.accepts] :
        s \in {f \in FramesFrom({EnterSend(pic, maxA)}) :
                  f.pc \in {"returned", "raised"}}}

\* the call made by main(): max_attempts is left at its default
ResultsWithPic == send_message_with_retry(TRUE, DefaultMaxAttempts)
ResultsWithoutPic == send_message_with_retry(FALSE, DefaultMaxAttempts)
CallResults(pic) == IF pic THEN ResultsWithPic ELSE ResultsWithoutPic

\* ------------------------------------------ the subroutine on its own
InitSend ==
    /\ mainPc = "standalone"
    /\ cur = NoEvent
    /\ now = 1
    /\ store = [i \in Ids |-> Absent]
    /\ q = << >>
    /\ workerPc = "none"
    /\ yielded = 0
    /\ produced = << >>
    /\ handed = 0
    /\ opens = 0
    /\ crashCause = "none"
    /\ supWaited = 0
    /\ cleanEnded = FALSE
    /\ accepted = ZeroIds
    /\ markCalls = ZeroIds
    /\ markOk = ZeroIds
    /\ lastRet = "none"
    /\ sub \in {EnterSend(pic, m) : pic \in BOOLEAN, m \in 0..MaxAttemptsBound}

NextSend ==
    \/ S_Loop
    \/ S_Fetch
    \/ S_PhotoRich
    \/ S_PhotoPlain
    \/ S_TextRich
    \/ S_TextPlain
    \/ S_Pace
    \/ S_Handler

SpecSend == InitSend /\ [][NextSend]_vars

\* every awaited call of the subroutine (fetch, send, sleep) completes
FairSpecSend == SpecSend /\ WF_vars(NextSend)


\* ================================================== _to_async_iter.run
\* bridge construction: q = queue.Queue(); Thread(target=run).start()
StartBridge ==
    /\ q' = << >>
    /\ workerPc' = "running"
    /\ yielded' = 0
    /\ produced' = << >>
    /\ handed' = 0

\* the process is running: the daemon worker dies with it
Live == mainPc \in {"connect", "read1", "save1", "check1", "send1", "mark1",
                   "open2", "read2", "save2", "send2",
                   "y_open", "y_read", "y_exists", "y_save", "y_send"}

\* the item is put in front of the queue
Enqueue_Front(qq, e) == <<e>> \o qq

\* q.put(item)
Enqueue(qq, e) == Append(qq, e)

\* for item in sync_iter: q.put(item)
WorkerPut ==
    /\ Live
    /\ workerPc = "running"
    /\ yielded < MaxEvents
    /\ \E e \in Events : /\ q' = Enqueue(q, e)
                         /\ produced' = Append(produced, e)
    /\ yielded' = yielded + 1
    /\ UNCHANGED <<mainPc, cur, now, store, workerPc, handed, opens, crashCause,
                   supWaited, cleanEnded, accepted, markCalls, markOk, lastRet, sub>>

\* the source is exhausted: the for loop ends, q.put(sentinel)
WorkerExhaust ==
    /\ Live
    /\ workerPc = "running"
    /\ q' = Enqueue(q, Sentinel)
    /\ workerPc' = "ended"
    /\ UNCHANGED <<mainPc, cur, now, store, yielded, produced, handed, opens, crashCause,
                   supWaited, cleanEnded, accepted, markCalls, markOk, lastRet, sub>>

\* the source raises: the exception leaves run() and the thread dies
WorkerRaise ==
    /\ Live
    /\ workerPc = "running"
    /\ workerPc' = "died"
    /\ UNCHANGED <<mainPc, cur, now, store, q, yielded, produced, handed, opens, crashCause,
                   supWaited, cleanEnded, accepted, markCalls, markOk, lastRet, sub>>

\* ================================================================ main()
\* an exception leaves main(); start_services re-raises it (lines 362-366)
Crash(cause) ==
    /\ mainPc' = "crashed"
    /\ crashCause' = cause

\* first pass, lines 231-241 and 291-297: open the feed; an exception is
\* caught at line 291 and re-raised at line 297
M_Connect ==
    /\ mainPc = "connect"
    /\ \/ /\ mainPc' = "read1"
          /\ opens' = opens + 1
          /\ StartBridge
          /\ UNCHANGED crashCause
       \/ /\ Crash("feed")
          /\ UNCHANGED <<opens, q, workerPc, yielded, produced, handed>>
    /\ UNCHANGED <<cur, now, store, supWaited, cleanEnded, accepted, markCalls, markOk,
                   lastRet, sub>>

\* every message is taken to carry an id
UsableId_Any(e) == e.id # "malformed"

\* if channel_id:
UsableId(e) == e.id \in Ids

\* first pass, lines 246-257 and 284-289: take the next item of the bridge;
\* the sentinel ends the loop and line 289 breaks out of the retry loop
M_Read1 ==
    /\ mainPc = "read1"
    /\ q # << >>
    /\ q' = Tail(q)
    /\ IF Head(q) = Sentinel
       THEN /\ mainPc' = "open2"
            /\ cleanEnded' = TRUE
            /\ UNCHANGED <<cur, now>>
       ELSE /\ now' = now + 1
            /\ UNCHANGED cleanEnded
            /\ IF UsableId(Head(q))
               THEN /\ cur' = Head(q)
                    /\ mainPc' = "save1"
               ELSE /\ cur' = NoEvent
                    /\ mainPc' = "read1"
    /\ handed' = IF Head(q) = Sentinel THEN handed ELSE handed + 1
    /\ UNCHANGED <<store, workerPc, yielded, produced, opens, crashCause, supWaited,
                   accepted, markCalls, markOk, lastRet, sub>>

\* first pass, line 259: save_user; a store error is caught at line 284
M_Save1 ==
    /\ mainPc = "save1"
    /\ \/ /\ store' = save_user(store, cur.id, cur.payload, now)
          /\ mainPc' = "check1"
          /\ UNCHANGED cur
       \/ /\ mainPc' = "read1"
          /\ cur' = NoEvent
          /\ UNCHANGED store
    /\ UNCHANGED <<now, q, workerPc, yielded, produced, handed, opens, crashCause, supWaited, cleanEnded,
                   accepted, markCalls, markOk, lastRet, sub>>

\* the delivered flag is not consulted
SkipDelivered_Never(st, i) == FALSE

\* if await is_user_sent_to_telegram(pool, channel_id): continue
SkipDelivered(st, i) == is_user_sent_to_telegram(st, i)

\* first pass, lines 262-263: is_user_sent_to_telegram; a store error is
\* caught at line 284
M_Check1 ==
    /\ mainPc = "check1"
    /\ \/ /\ SkipDelivered(store, cur.id)
          /\ mainPc' = "read1"
          /\ cur' = NoEvent
       \/ /\ ~SkipDelivered(store, cur.id)
          /\ mainPc' = "send1"
          /\ UNCHANGED cur
       \/ /\ mainPc' = "read1"
          /\ cur' = NoEvent
    /\ UNCHANGED <<now, store, q, workerPc, yielded, produced, handed, opens, crashCause,
                   supWaited, cleanEnded, accepted, markCalls, markOk, lastRet, sub>>

\* where the first pass goes when the call of lines 271-277 returns r:
\* the value is not looked at
AfterSend1(r) == "mark1"

\* first pass, lines 270-283: the call of send_message_with_retry; an
\* exception is caught at line 281
M_Send1 ==
    /\ mainPc = "send1"
    /\ \E o \in CallResults(HasImage(cur.payload)) :
          /\ accepted' = [accepted EXCEPT ![cur.id] = @ + o.accepts]
          /\ IF o.ret = "exc"
             THEN /\ mainPc' = "read1"
                  /\ cur' = NoEvent
                  /\ lastRet' = "none"
             ELSE /\ mainPc' = AfterSend1(o.ret)
                  /\ lastRet' = o.ret
                  /\ UNCHANGED cur
    /\ UNCHANGED <<now, store, q, workerPc, yielded, produced, handed, opens, crashCause,
                   supWaited, cleanEnded, markCalls, markOk, sub>>

\* first pass, line 279: mark_user_sent_to_telegram; a store error is
\* caught at line 281
M_Mark1 ==
    /\ mainPc = "mark1"
    /\ markCalls' = [markCalls EXCEPT ![cur.id] = @ + 1]
    /\ \/ /\ store' = mark_user_sent_to_telegram(store, cur.id, now)
          /\ markOk' = [markOk EXCEPT ![cur.id] = @ + 1]
       \/ UNCHANGED <<store, markOk>>
    /\ mainPc' = "read1"
    /\ cur' = NoEvent
    /\ lastRet' = "none"
    /\ UNCHANGED <<now, q, workerPc, yielded, produced, handed, opens, crashCause, supWaited, cleanEnded,
                   accepted, sub>>

\* after the retry loop, line 299: get_chat again, outside any try
M_Open2 ==
    /\ mainPc = "open2"
    /\ \/ /\ mainPc' = "read2"
          /\ opens' = opens + 1
          /\ StartBridge
          /\ UNCHANGED crashCause
       \/ /\ Crash("feed")
          /\ UNCHANGED <<opens, q, workerPc, yielded, produced, handed>>
    /\ UNCHANGED <<cur, now, store, supWaited, cleanEnded, accepted, markCalls, markOk,
                   lastRet, sub>>

\* second pass, lines 301-311: take the next item of the bridge; nothing
\* catches an exception here
M_Read2 ==
    /\ mainPc = "read2"
    /\ q # << >>
    /\ q' = Tail(q)
    /\ IF Head(q) = Sentinel
       THEN /\ mainPc' = "done"
            /\ cleanEnded' = TRUE
            /\ UNCHANGED <<cur, now, crashCause>>
       ELSE /\ now' = now + 1
            /\ UNCHANGED cleanEnded
            /\ IF UsableId(Head(q))
               THEN /\ cur' = Head(q)
                    /\ mainPc' = "save2"
                    /\ UNCHANGED crashCause
               ELSE IF Head(q) = MalformedEvent
                    THEN /\ Crash("event")
                         /\ cur' = NoEvent
                    ELSE /\ cur' = NoEvent
                         /\ mainPc' = "read2"
                         /\ UNCHANGED crashCause
    /\ handed' = IF Head(q) = Sentinel THEN handed ELSE handed + 1
    /\ UNCHANGED <<store, workerPc, yielded, produced, opens, supWaited, accepted,
                   markCalls, markOk, lastRet, sub>>

\* second pass, line 314: save_user; a store error leaves main()
M_Save2 ==
    /\ mainPc = "save2"
    /\ \/ /\ store' = save_user(store, cur.id, cur.payload, now)
          /\ mainPc' = "send2"
          /\ UNCHANGED <<cur, crashCause>>
       \/ /\ Crash("event")
          /\ cur' = NoEvent
          /\ UNCHANGED store
    /\ UNCHANGED <<now, q, workerPc, yielded, produced, handed, opens, supWaited, cleanEnded, accepted,
                   markCalls, markOk, lastRet, sub>>

\* second pass, lines 319-325: the call of send_message_with_retry; its
\* value is dropped and an exception leaves main()
M_Send2 ==
    /\ mainPc = "send2"
    /\ \E o \in CallResults(HasImage(cur.payload)) :
          /\ accepted' = [accepted EXCEPT ![cur.id] = @ + o.accepts]
          /\ IF o.ret = "exc"
             THEN Crash("event")
             ELSE /\ mainPc' = "read2"
                  /\ UNCHANGED crashCause
    /\ cur' = NoEvent
    /\ UNCHANGED <<now, store, q, workerPc, yielded, produced, handed, opens, supWaited, cleanEnded,
                   markCalls, markOk, lastRet, sub>>

Init ==
    /\ mainPc = "connect"
    /\ cur = NoEvent
    /\ now = 1
    /\ store = [i \in Ids |-> Absent]
    /\ q = << >>
    /\ workerPc = "none"
    /\ yielded = 0
    /\ produced = << >>
    /\ handed = 0
    /\ opens = 0
    /\ crashCause = "none"
    /\ supWaited = 0
    /\ cleanEnded = FALSE
    /\ accepted = ZeroIds
    /\ markCalls = ZeroIds
    /\ markOk = ZeroIds
    /\ lastRet = "none"
    /\ sub = IdleFrame

Next ==
    \/ M_Connect
    \/ M_Read1
    \/ M_Save1
    \/ M_Check1
    \/ M_Send1
    \/ M_Mark1
    \/ M_Open2
    \/ M_Read2
    \/ M_Save2
    \/ M_Send2
    \/ WorkerPut
    \/ WorkerExhaust
    \/ WorkerRaise

Spec == Init /\ [][Next]_vars

\* the event loop keeps running main(), the worker thread keeps being
\* scheduled, and every awaited call completes
FairSpec == Spec /\ WF_vars(Next)


\* ================================================ yt_to_telegram.py main()
\* SELECT EXISTS(SELECT 1 FROM youtube_users WHERE channel_id = $1)
is_user_exists(st, i) == st[i] # Absent

\* INSERT ... ON CONFLICT (channel_id) DO NOTHING, on the table of
\* yt_to_telegram.py, which has no sent_to_telegram column
yt_save_user(st, i, p, t) ==
    IF st[i] # Absent THEN st
    ELSE [st EXCEPT ![i] = [present |-> TRUE, name |-> NameOf(p),
                            url |-> UrlOf(p), first_seen |-> t, raw |-> p]]

\* send_with_retry(attempt, max_attempts), lines 158-191: how a call can
\* end ("none": it returned, "exc": an exception left it) and the number of
\* sends the endpoint accepted.  One send is tried; a RetryAfter with
\* attempts left is followed by a recursive call, any other exception is
\* printed (the handler of line 187 is never reached).
RECURSIVE send_with_retry(_, _, _)
send_with_retry(pic, attempt, maxA) ==
    LET handled(e) ==
            IF e.kind = "rate" /\ attempt < maxA
            THEN IF e.parseable
                 THEN send_with_retry(pic, attempt + 1, maxA)
                 ELSE {[ret |-> "exc", accepts |-> 0]}
            ELSE {[ret |-> "none", accepts |-> 0]}
        sent == {[ret |-> "none", accepts |-> 1]}
                    \cup UNION {handled(e) : e \in SendErrs}
    IN IF pic THEN handled(GenericErr) \cup sent ELSE sent

\* await send_with_retry(): attempt=1, max_attempts=3
YtResultsWithPic == send_with_retry(TRUE, 1, DefaultMaxAttempts)
YtResultsWithoutPic == send_with_retry(FALSE, 1, DefaultMaxAttempts)
YtCallResults(pic) == IF pic THEN YtResultsWithPic ELSE YtResultsWithoutPic

\* line 104: get_chat, outside any try
Y_Open ==
    /\ mainPc = "y_open"
    /\ \/ /\ mainPc' = "y_read"
          /\ opens' = opens + 1
          /\ StartBridge
          /\ UNCHANGED crashCause
       \/ /\ Crash("feed")
          /\ UNCHANGED <<opens, q, workerPc, yielded, produced, handed>>
    /\ UNCHANGED <<cur, now, store, supWaited, cleanEnded, accepted, markCalls,
                   markOk, lastRet, sub>>

\* lines 106-116: take the next item of the bridge; the sentinel ends
\* main(); nothing catches an exception here
Y_Read ==
    /\ mainPc = "y_read"
    /\ q # << >>
    /\ q' = Tail(q)
    /\ IF Head(q) = Sentinel
       THEN /\ mainPc' = "done"
            /\ cleanEnded' = TRUE
            /\ UNCHANGED <<cur, now, crashCause>>
       ELSE /\ now' = now + 1
            /\ UNCHANGED cleanEnded
            /\ IF UsableId(Head(q))
               THEN /\ cur' = Head(q)
                    /\ mainPc' = "y_exists"
                    /\ UNCHANGED crashCause
               ELSE IF Head(q) = MalformedEvent
                    THEN /\ Crash("event")
                         /\ cur' = NoEvent
                    ELSE /\ cur' = NoEvent
                         /\ mainPc' = "y_read"
                         /\ UNCHANGED crashCause
    /\ handed' = IF Head(q) = Sentinel THEN handed ELSE handed + 1
    /\ lastRet' = "none"
    /\ UNCHANGED <<store, workerPc, yielded, produced, opens, supWaited,
                   accepted, markCalls, markOk, sub>>

\* line 118: if not await is_user_exists(pool, channel_id); lastRet keeps
\* the value returned; a store error leaves main()
Y_Exists ==
    /\ mainPc = "y_exists"
    /\ \/ /\ is_user_exists(store, cur.id)
          /\ lastRet' = "true"
          /\ mainPc' = "y_send"
          /\ UNCHANGED <<cur, crashCause>>
       \/ /\ ~is_user_exists(store, cur.id)
          /\ lastRet' = "false"
          /\ mainPc' = "y_save"
          /\ UNCHANGED <<cur, crashCause>>
       \/ /\ Crash("event")
          /\ cur' = NoEvent
          /\ UNCHANGED lastRet
    /\ UNCHANGED <<now, store, q, workerPc, yielded, produced, handed, opens,
                   supWaited, cleanEnded, accepted, markCalls, markOk, sub>>

\* line 120: save_user; a store error leaves main()
Y_Save ==
    /\ mainPc = "y_save"
    /\ \/ /\ store' = yt_save_user(store, cur.id, cur.payload, now)
          /\ mainPc' = "y_send"
          /\ UNCHANGED <<cur, crashCause>>
       \/ /\ Crash("event")
          /\ cur' = NoEvent
          /\ UNCHANGED store
    /\ UNCHANGED <<now, q, workerPc, yielded, produced, handed, opens,
                   supWaited, cleanEnded, accepted, markCalls, markOk, lastRet,
                   sub>>

\* lines 127-194, at the indentation of `if channel_id:`: the caption is
\* built and send_with_retry() awaited; an exception leaves main()
Y_Send ==
    /\ mainPc = "y_send"
    /\ \E o \in YtCallResults(HasImage(cur.payload)) :
          /\ accepted' = [accepted EXCEPT ![cur.id] = @ + o.accepts]
          /\ IF o.ret = "exc"
             THEN /\ Crash("event")
                  /\ cur' = NoEvent
             ELSE /\ mainPc' = "y_read"
                  /\ UNCHANGED <<cur, crashCause>>
    /\ UNCHANGED <<now, store, q, workerPc, yielded, produced, handed, opens,
                   supWaited, cleanEnded, markCalls, markOk, lastRet, sub>>

InitYt ==
    /\ mainPc = "y_open"
    /\ cur = NoEvent
    /\ now = 1
    /\ store = [i \in Ids |-> Absent]
    /\ q = << >>
    /\ workerPc = "none"
    /\ yielded = 0
    /\ produced = << >>
    /\ handed = 0
    /\ opens = 0
    /\ crashCause = "none"
    /\ supWaited = 0
    /\ cleanEnded = FALSE
    /\ accepted = ZeroIds
    /\ markCalls = ZeroIds
    /\ markOk = ZeroIds
    /\ lastRet = "none"
    /\ sub = IdleFrame

NextYt ==
    \/ Y_Open
    \/ Y_Read
    \/ Y_Exists
    \/ Y_Save
    \/ Y_Send
    \/ WorkerPut
    \/ WorkerExhaust
    \/ WorkerRaise

SpecYt == InitYt /\ [][NextYt]_vars


\* ==================================================== checked properties
\* positions of main() inside a pass over the feed
InPass ==
    mainPc \in {"read1", "save1", "check1", "send1", "mark1",
                "read2", "save2", "send2"}

\* the call of send_message_with_retry has ended
SendEnded == sub.pc \in {"returned", "raised"}

\* C1: main() reaches mark_user_sent_to_telegram only when the call of
\* send_message_with_retry made for the event has returned True; after a
\* reported failure the flag is not set.
C1_MarkOnlyAfterSuccess == mainPc = "mark1" => lastRet = "true"

\* C2: over a whole execution of main() the messaging endpoint accepts at
\* most one notification for each participant id.
C2_AtMostOneNotification == \A i \in Ids : accepted[i] <= 1

\* C3: once the source of the first connection has raised after yielding
\* events, the supervisor waits between retry_delay and max_retry_delay seconds
\* and get_chat is invoked again.
C3_ReconnectAfterFeedError ==
    (workerPc = "died" /\ yielded > 0 /\ opens = 1)
        ~> (opens > 1 /\ supWaited >= retry_delay
                      /\ supWaited <= max_retry_delay)

\* C4: once the source behind the bridge has stopped, by exhaustion or by
\* raising, the end-of-stream marker is the last item of the hand-off queue
\* for as long as the pass is still running, so the consumer's read cannot
\* wait forever.
C4_EndMarkerAfterSourceStops ==
    (workerPc \in {"ended", "died"} /\ InPass)
        => (q # << >> /\ q[Len(q)] = Sentinel)

\* C5: a feed-connection error never leaves main().
C5_FeedErrorNotFatal == crashCause # "feed"

\* C6: after a pass has ended on a clean end-of-stream, main() does not
\* open the feed again and makes no further store or delivery call.
C6_NoSecondPass ==
    [][cleanEnded => /\ opens' = opens
                     /\ store' = store
                     /\ accepted' = accepted
                     /\ mainPc' \notin {"save2", "send2"}]_vars

\* C7: no exception leaves send_message_with_retry: every call ends by
\* returning a boolean.
C7_NoExceptionEscapes == sub.pc # "raised"

\* C8 as stated: mark_user_sent_to_telegram is invoked at most once for
\* each participant id within one run of main().
C8_MarkInvokedAtMostOnce == \A i \in Ids : markCalls[i] <= 1

\* C8 as amended: mark_user_sent_to_telegram executes its update at most
\* once for each participant id, and it is invoked for an id only while no
\* earlier invocation for that id has executed its update.
C8_MarkCompletesAtMostOnce ==
    /\ \A i \in Ids : markOk[i] <= 1
    /\ mainPc = "mark1" => markOk[cur.id] = 0

\* C8 witness: the same id was marked twice, the first invocation having
\* raised a store error.
C8_Witness == markCalls["a"] = 2 /\ markOk["a"] = 1

\* C9: when every send of a call has failed with a generic error, the call
\* ends after exactly max_attempts attempts and returns False.
C9_ExhaustionReturnsFalse ==
    (SendEnded /\ sub.allGeneric)
        => (sub.ret = "false" /\ sub.attempt = sub.max)

\* C9 witness: a call with the default max_attempts has ended after three
\* attempts whose sends all failed with a generic error.
C9_Witness ==
    /\ SendEnded
    /\ sub.allGeneric
    /\ sub.max = DefaultMaxAttempts
    /\ sub.attempt = DefaultMaxAttempts
    /\ sub.slept = ErrorBackoffStep * 1 + ErrorBackoffStep * 2

\* C10: when attempt 1 was answered with rate-limit errors only, the
\* largest carrying retry-after N, and a send of attempt 2 was accepted,
\* the call returns True after exactly 2 attempts having slept at least N
\* seconds.
C10_RateLimitBackoff ==
    (SendEnded /\ sub.rl1 > 0 /\ sub.rateOnly1 /\ sub.okAt = 2)
        => (sub.ret = "true" /\ sub.attempt = 2 /\ sub.slept >= sub.rl1)


\* C11: when the avatar fetch of an attempt has failed (another status, an
\* exception, or no avatar URL) and a send of that attempt is accepted, no
\* send_photo call was issued in the attempt, the accepted send is a text
\* send, and the call returns True.
C11_TextFallbackSucceeds ==
    (sub.pc \in {"pace", "returned"} /\ sub.okAt > 0 /\ sub.fetched = "fail")
        => /\ sub.photoSends = 0
           /\ sub.textSends >= 1
           /\ sub.pc = "returned" => sub.ret = "true"

\* C11 witness: an avatar URL was given, its fetch failed, and the call
\* has returned after the text send of attempt 1 was accepted.
C11_Witness ==
    /\ sub.pc = "returned"
    /\ sub.hasPic
    /\ sub.fetched = "fail"
    /\ sub.okAt = 1
    /\ sub.textSends = 1

\* C17: after a send of an attempt has been answered with a rate-limit
\* error, no further send call is issued in that attempt.
C17_NoSendAfterRateLimit == ~sub.sentAfterRate

\* C18: within an attempt a text send is issued only when the avatar fetch
\* failed, and apart from the plain-text downgrades at most one send call
\* is issued.
C18_TextOnlyAfterFetchFailure ==
    /\ sub.textSends > 0 => sub.fetched = "fail"
    /\ sub.photoSends + sub.textSends - sub.plainSends <= 1

\* C19: a rich send rejected for a parse reason is followed by the plain
\* send of the same kind in the same attempt, and this is the only plain
\* send of the attempt.
C19_OnePlainResend ==
    [][(sub.pc \in {"photo_rich", "text_rich"} /\ sub'.answer = "parse"
            /\ sub' # sub)
        => /\ sub'.pc = (IF sub.pc = "photo_rich" THEN "photo_plain"
                         ELSE "text_plain")
           /\ sub'.attempt = sub.attempt
           /\ sub.plainSends = 0]_vars

\* C20: once a send has been accepted in attempt k, no further fetch or
\* send is issued in the call, which sleeps base_delay * k and returns True
\* without starting another attempt.
C20_ReturnAfterFirstSuccess ==
    /\ sub.accepts <= 1
    /\ sub.callsAfterOk = 0
    /\ sub.okAt > 0 => /\ sub.attempt = sub.okAt
                       /\ sub.pc \in {"pace", "returned"}
    /\ (sub.okAt > 0 /\ sub.pc = "returned")
          => /\ sub.ret = "true"
             /\ sub.slept = sub.sleptAtOk + base_delay * sub.okAt

\* C20 witness: a call has returned after a send accepted in attempt 2.
C20_Witness == sub.pc = "returned" /\ sub.okAt = 2 /\ sub.ret = "true"


\* the table after init_db, no call made yet
InitStore ==
    /\ mainPc = "store"
    /\ cur = NoEvent
    /\ now = 1
    /\ store = [i \in Ids |-> Absent]
    /\ q = << >>
    /\ workerPc = "none"
    /\ yielded = 0
    /\ produced = << >>
    /\ handed = 0
    /\ opens = 0
    /\ crashCause = "none"
    /\ supWaited = 0
    /\ cleanEnded = FALSE
    /\ accepted = ZeroIds
    /\ markCalls = ZeroIds
    /\ markOk = ZeroIds
    /\ lastRet = "none"
    /\ sub = IdleFrame

SpecStore == InitStore /\ [][NextStore]_vars

\* C12: an error raised while processing one event never leaves main().
C12_EventErrorContained == crashCause # "event"

\* the items of the hand-off queue, the end marker left out
Pending == SelectSeq(q, LAMBDA x : x # Sentinel)

\* C13: the items the bridge has handed over followed by the items still
\* queued are exactly the items the source yielded, in the same order; the
\* end marker is the last item of the queue; and the message save_user is
\* invoked for is the item handed over last.
C13_OrderPreserved ==
    /\ handed + Len(Pending) = Len(produced)
    /\ \A k \in 1..Len(Pending) : Pending[k] = produced[handed + k]
    /\ \A k \in 1..Len(q) : q[k] = Sentinel => k = Len(q)
    /\ mainPc \in {"save1", "check1", "send1", "mark1", "save2", "send2"}
          => (handed >= 1 /\ cur = produced[handed])

\* C13 witness: the source yielded two messages with distinct ids and
\* main() is about to call save_user for the second one.
C13_Witness ==
    /\ mainPc = "save1"
    /\ handed = 2
    /\ produced[1].id \in Ids
    /\ produced[2].id \in Ids
    /\ produced[1].id # produced[2].id

\* C14: save_user called with an id that already has a row, whatever the
\* name, url and payload passed, leaves the whole table unchanged.
C14_SaveIdempotent ==
    [][(mainPc' = "st_saved" /\ store[cur'.id] # Absent)
          => store' = store]_vars

\* C14 witness: save_user has returned from a call whose payload differs
\* from the one stored for the id.
C14_Witness ==
    /\ mainPc = "st_saved"
    /\ store[cur.id] # Absent
    /\ store[cur.id].raw # cur.payload
    /\ store[cur.id].delivered

\* C15: taking a message without author id off the bridge leads to no
\* store call and no delivery call and leaves the store unchanged.
C15_SkipOnNoIdentity ==
    [][(mainPc \in {"read1", "read2"} /\ q # << >> /\ Head(q) = NoIdEvent
            /\ handed' = handed + 1)
        => /\ mainPc' = mainPc
           /\ cur' = NoEvent
           /\ store' = store
           /\ accepted' = accepted
           /\ markCalls' = markCalls]_vars

\* C15 witness: the second pass has taken a message without id.
C15_Witness ==
    /\ mainPc = "read2"
    /\ handed = 1
    /\ produced[1] = NoIdEvent

\* C16: for every row of the table, telegram_sent_at is set if and only if
\* sent_to_telegram is true.
C16_DeliveredAtIffDelivered ==
    \A i \in Ids :
        store[i] # Absent
            => (store[i].delivered <=> store[i].delivered_at # NoTime)

\* C16 witness: a row has been marked as sent.
C16_Witness ==
    /\ mainPc = "st_marked"
    /\ store[cur.id] # Absent
    /\ store[cur.id].delivered

\* C21: send_message_with_retry is never invoked for a participant whose
\* row has sent_to_telegram true at that moment, in either pass.
C21_NoSendWhenDelivered ==
    mainPc \in {"send1", "send2"} => ~is_user_sent_to_telegram(store, cur.id)

\* C22: once the source behind the bridge has raised and the consumer has
\* taken every item the source yielded, the consumer's next read raises the
\* source's error, which leaves the pass.
C22_SourceErrorRaisedToConsumer ==
    (workerPc = "died" /\ mainPc \in {"read1", "read2"} /\ q = << >>
        /\ handed = yielded)
        ~> (mainPc = "crashed")

\* C23: mark_user_sent_to_telegram called for an id whose row is already
\* marked as sent leaves the whole table unchanged, whatever the time of
\* the call: telegram_sent_at keeps the time of the first call.
C23_MarkIdempotent ==
    [][(mainPc' = "st_marked" /\ store[cur'.id] # Absent
            /\ store[cur'.id].delivered)
          => store' = store]_vars

\* C26: no step of the store operations removes a row, and no step turns
\* a true sent_to_telegram back to false; is_user_sent_to_telegram changes
\* nothing.
C26_StoreMonotone ==
    [][/\ \A i \in Ids :
            store[i] # Absent
                => /\ store'[i] # Absent
                   /\ store[i].delivered => store'[i].delivered
       /\ mainPc' = "st_queried" => store' = store]_vars

\* C26 witness: save_user has returned for an id whose row was marked as
\* sent at an earlier time, while the other id has a row not yet marked.
C26_Witness ==
    /\ mainPc = "st_saved"
    /\ cur.id = "a"
    /\ store["a"] # Absent
    /\ store["a"].delivered
    /\ store["a"].delivered_at < now
    /\ store["b"] # Absent
    /\ ~store["b"].delivered

\* C25: a call of send_message_with_retry never starts attempt number
\* max_attempts + 1, whatever max_attempts >= 0 and whatever the fetches and
\* sends answer, and the call ends.
C25_BoundedAttempts ==
    /\ [](sub.attempt <= sub.max)
    /\ <>SendEnded

\* C25 witness: a call with the default max_attempts has returned False
\* after every attempt, the last one included, ended on a rate-limit error
\* carrying the largest retry-after.
C25_Witness ==
    /\ sub.pc = "returned"
    /\ sub.ret = "false"
    /\ sub.max = DefaultMaxAttempts
    /\ sub.attempt = sub.max
    /\ sub.rateSeen
    /\ sub.slept = sub.max * (MaxRetryAfter + 1)

\* C24: in yt_to_telegram.py the endpoint is handed a notification only for
\* an event whose participant id had no row when the event arrived
\* (is_user_exists returned false).
C24_SendOnlyForNewUsers ==
    [][(mainPc = "y_send" /\ accepted' # accepted) => lastRet = "false"]_vars

====
